---------------------------- MODULE Spec2Model ----------------------------
(***************************************************************************)
(* Model of the pitch detectors of PitchDetector.TS: Amdf, Asdf and Yin    *)
(* (threshold-and-descend lag search), the parabolic interpolation they    *)
(* refine the lag with, and the options object each detector keeps.        *)
(*                                                                         *)
(* Numbers.  The code computes in IEEE doubles over Float32 samples.  The  *)
(* model computes in exact rationals <<n, d>> with d > 0, kept in lowest   *)
(* terms; <<0, 0>> is NaN (the only non-finite value the code can produce: *)
(* every division by zero in it is 0/0).  Sample buffers hold integer      *)
(* multiples of 1/unit, so that every sum the code forms is exact.         *)
(* Array indices are the code's (0-based); Sample(x, i) reads x[i].        *)
(***************************************************************************)
EXTENDS Integers, Sequences, FiniteSets, TLC

\* ------------------------------------------------------------------ bounds
MaxLen == 5      \* longest sample buffer the caller fills
MaxAmp == 1      \* sample amplitudes range over 0 .. MaxAmp (McLeod: -MaxAmp .. MaxAmp)
MaxRate == 5     \* sample rates range over MaxRate-1 .. MaxRate
MaxBufferSize == 5  \* Yin.detect is explored for bufferSize <= MaxBufferSize
MaxNsdf == 6     \* largest bufferSize of McLeod, and longest buffer handed to it
MantissaBits == 4   \* significand bits of the floating-point numbers of the helper

\* ------------------------------------------------------- exact arithmetic
NaN == <<0, 0>>
Zero == <<0, 1>>

Abs(a) == IF a < 0 THEN -a ELSE a

RECURSIVE GCD(_, _)
GCD(a, b) == IF b = 0 THEN a ELSE GCD(b, a % b)

\* n / d of two integers, as JavaScript's number division: 0/0 is NaN
Quot(n, d) ==
    IF d = 0 THEN NaN
    ELSE LET g == GCD(Abs(n), Abs(d))
             s == IF d < 0 THEN -1 ELSE 1
         IN  <<(s * n) \div g, (s * d) \div g>>

IsNaN(a) == a[2] = 0
Num(k) == <<k, 1>>

\* a < b ; every comparison with NaN is false
\* a / b < c / d for b, d > 0, by comparing the continued fractions (no
\* product is formed, so the comparison cannot overflow)
RECURSIVE LtFrac(_, _, _, _)
LtFrac(a, b, c, d) ==
    IF a \div b # c \div d THEN a \div b < c \div d
    ELSE IF c % d = 0 THEN FALSE
    ELSE IF a % b = 0 THEN TRUE
    ELSE LtFrac(d, c % d, b, a % b)

Lt(a, b) ==
    /\ ~IsNaN(a)
    /\ ~IsNaN(b)
    /\ LtFrac(a[1], a[2], b[1], b[2])

\* The operands of Add, Scale and Div are bound to their values (u, v) before
\* use, so that an operand expression is evaluated once; common factors are
\* cancelled before the products are formed, to keep them small.
Add(a, b) ==
    CHOOSE r \in {IF IsNaN(u) \/ IsNaN(v) THEN NaN
                  ELSE LET g == GCD(u[2], v[2])
                       IN  Quot(u[1] * (v[2] \div g) + v[1] * (u[2] \div g),
                                (u[2] \div g) * v[2]) :
                      u \in {a}, v \in {b}} : TRUE
Neg(a) == <<-a[1], a[2]>>
Sub(a, b) == Add(a, Neg(b))
Scale(k, a) ==
    CHOOSE r \in {IF IsNaN(u) THEN NaN ELSE Quot(k * u[1], u[2]) : u \in {a}} : TRUE
\* a / b of two numbers
Div(a, b) ==
    CHOOSE r \in {IF IsNaN(u) \/ IsNaN(v) \/ v[1] = 0 THEN NaN
                  ELSE LET g == GCD(Abs(u[1]), Abs(v[1]))
                           h == GCD(u[2], v[2])
                       IN  Quot((u[1] \div g) * (v[2] \div h),
                                (u[2] \div h) * (v[1] \div g)) :
                      u \in {a}, v \in {b}} : TRUE

\* Math.floor(a / b) and Math.ceil(a / b) for positive integers a, b
Floor(a, b) == a \div b
Ceil(a, b) == -((-a) \div b)

\* ---------------------------------------------------------- sample buffers
\* a Float32Array: data[i+1] / unit is the amplitude of sample i
Buffer(u, s) == [unit |-> u, data |-> s]
Length(x) == Len(x.data)
Sample(x, i) == x.data[i + 1]

\* ----------------------------------------------------------------- metrics
\* Amdf.computeAmdf: the loop runs over i = 1 .. N - tau - 1 and the sum is
\* divided by N - tau.  AmdfSum(x, tau, lo, hi) is the sum of the loop's terms
\* for lo <= i <= hi, added up by halves.
RECURSIVE AmdfSum(_, _, _, _)
AmdfSum(x, tau, lo, hi) ==
    IF hi < lo THEN 0
    ELSE IF lo = hi THEN Abs(Sample(x, lo) - Sample(x, lo + tau))
    ELSE AmdfSum(x, tau, lo, (lo + hi) \div 2)
            + AmdfSum(x, tau, (lo + hi) \div 2 + 1, hi)

computeAmdf(x, tau) ==
    Quot(AmdfSum(x, tau, 1, Length(x) - tau - 1), x.unit * (Length(x) - tau))

\* Asdf.computeAsdf: as computeAmdf, with squared differences
RECURSIVE AsdfSum(_, _, _, _)
AsdfSum(x, tau, lo, hi) ==
    IF hi < lo THEN 0
    ELSE IF lo = hi
         THEN (Sample(x, lo) - Sample(x, lo + tau)) * (Sample(x, lo) - Sample(x, lo + tau))
    ELSE AsdfSum(x, tau, lo, (lo + hi) \div 2)
            + AsdfSum(x, tau, (lo + hi) \div 2 + 1, hi)

\* variant of computeAsdf: the sum is divided by the number of its terms,
\* N - tau - 1
computeAsdf_terms(x, tau) ==
    Quot(AsdfSum(x, tau, 1, Length(x) - tau - 1), x.unit * x.unit * (Length(x) - tau - 1))

computeAsdf(x, tau) ==
    Quot(AsdfSum(x, tau, 1, Length(x) - tau - 1), x.unit * x.unit * (Length(x) - tau))

\* Yin.computeDiff: the unnormalised sum of squared differences, in units
\* of 1/unit^2 (Yin only ever uses ratios of these sums)
computeDiff(x, tau) == AsdfSum(x, tau, 1, Length(x) - tau - 1)

\* ------------------------------------------- shared parabolic interpolation
\* PitchDetector.applyParabolicInterpolation(samples, tau): reads the array
\* it is handed at tau-1, tau, tau+1
applyParabolicInterpolation(x, tau) ==
    LET prevTau == tau - 1
        nextTau == tau + 1
    IN  IF 0 <= prevTau /\ nextTau < Length(x)
        THEN LET prevSample == Sample(x, prevTau)
                 sample == Sample(x, tau)
                 nextSample == Sample(x, nextTau)
             IN  Add(Num(tau),
                     Quot(prevSample - 2 * sample + nextSample,
                          2 * (2 * sample - nextSample - prevSample)))
        ELSE Num(tau)

\* ----------------------------------------------------------------- options
\* A field of a Partial<...Options> argument is <<v>> when the caller supplies
\* the value v, and Absent when it is undefined or null.
Absent == << >>
Supplied(v) == <<v>>

\* functions/is-nil
isNil(f) == f = Absent

\* Amdf.constructAmdfOptions
constructAmdfOptions == [threshold |-> <<1, 10>>, minFrequency |-> 50, maxFrequency |-> 1000]

\* Amdf.configure: three independent guarded assignments
Amdf_configure(amdfOptions, p) ==
    [minFrequency |-> IF ~isNil(p.minFrequency) THEN p.minFrequency[1]
                      ELSE amdfOptions.minFrequency,
     maxFrequency |-> IF ~isNil(p.maxFrequency) THEN p.maxFrequency[1]
                      ELSE amdfOptions.maxFrequency,
     threshold |-> IF ~isNil(p.threshold) THEN p.threshold[1]
                   ELSE amdfOptions.threshold]

\* Asdf.constructAsdfOptions
constructAsdfOptions == [threshold |-> <<1, 10>>, minFrequency |-> 50, maxFrequency |-> 1000]

\* variant of Asdf_configure: the options object is rebuilt from the
\* defaults, so that fields the argument leaves out are reset
Asdf_configure_reset(asdfOptions, p) ==
    [minFrequency |-> IF ~isNil(p.minFrequency) THEN p.minFrequency[1] ELSE 50,
     maxFrequency |-> IF ~isNil(p.maxFrequency) THEN p.maxFrequency[1] ELSE 1000,
     threshold |-> IF ~isNil(p.threshold) THEN p.threshold[1] ELSE <<1, 10>>]

\* Asdf.configure
Asdf_configure(asdfOptions, p) ==
    [minFrequency |-> IF ~isNil(p.minFrequency) THEN p.minFrequency[1]
                      ELSE asdfOptions.minFrequency,
     maxFrequency |-> IF ~isNil(p.maxFrequency) THEN p.maxFrequency[1]
                      ELSE asdfOptions.maxFrequency,
     threshold |-> IF ~isNil(p.threshold) THEN p.threshold[1]
                   ELSE asdfOptions.threshold]

\* variant of constructYinOptions: the README's example values as defaults
constructYinOptions_example == [bufferSize |-> 2048, threshold |-> <<3, 20>>]

\* Yin.constructYinOptions
constructYinOptions == [bufferSize |-> 1024, threshold |-> <<1, 10>>]

\* Yin.configure
Yin_configure(yinOptions, p) ==
    [bufferSize |-> IF ~isNil(p.bufferSize) THEN p.bufferSize[1]
                    ELSE yinOptions.bufferSize,
     threshold |-> IF ~isNil(p.threshold) THEN p.threshold[1]
                   ELSE yinOptions.threshold]

\* ------------------------------------------------ detect, as pure functions
\* variant of Amdf_frequency: the guard written bestTau >= 0
Amdf_frequency_ge(bestTau, sampleRate) ==
    IF ~IsNaN(bestTau) /\ ~Lt(bestTau, Zero) THEN Div(Num(sampleRate), bestTau) ELSE Zero

\* frequency = bestTau > 0 ? sampleRate / bestTau : 0   (Amdf.detect)
Amdf_frequency(bestTau, sampleRate) ==
    IF Lt(Zero, bestTau) THEN Div(Num(sampleRate), bestTau) ELSE Zero

\* Amdf.findAbsoluteThreshold, entered with bestTau = minTau + 1
RECURSIVE Amdf_findAbsoluteThreshold(_, _, _, _)
Amdf_findAbsoluteThreshold(x, bestTau, maxTau, value) ==
    IF bestTau < maxTau /\ Lt(computeAmdf(x, bestTau), value)
    THEN Amdf_findAbsoluteThreshold(x, bestTau + 1, maxTau, computeAmdf(x, bestTau))
    ELSE bestTau - 1

\* Amdf.findBestTau, entered with i = minTau
RECURSIVE Amdf_findBestTau(_, _, _, _)
Amdf_findBestTau(x, i, maxTau, threshold) ==
    IF i < maxTau
    THEN IF Lt(computeAmdf(x, i), threshold)
         THEN applyParabolicInterpolation(x,
                  Amdf_findAbsoluteThreshold(x, i + 1, maxTau, computeAmdf(x, i)))
         ELSE Amdf_findBestTau(x, i + 1, maxTau, threshold)
    ELSE Zero

\* Amdf.detect
Amdf_detect(amdfOptions, x, sampleRate) ==
    LET minTau == Floor(sampleRate, amdfOptions.maxFrequency)
        maxTau == Ceil(sampleRate, amdfOptions.minFrequency)
    IN  Amdf_frequency(Amdf_findBestTau(x, minTau, maxTau, amdfOptions.threshold),
                       sampleRate)

\* variant of Asdf_frequency: bestTau / sampleRate
Asdf_frequency_period(bestTau, sampleRate) ==
    IF Lt(Zero, bestTau) THEN Div(bestTau, Num(sampleRate)) ELSE Zero

\* frequency = bestTau > 0 ? sampleRate / bestTau : 0   (Asdf.detect)
Asdf_frequency(bestTau, sampleRate) ==
    IF Lt(Zero, bestTau) THEN Div(Num(sampleRate), bestTau) ELSE Zero

\* Asdf.findAbsoluteThreshold
RECURSIVE Asdf_findAbsoluteThreshold(_, _, _, _)
Asdf_findAbsoluteThreshold(x, bestTau, maxTau, value) ==
    IF bestTau < maxTau /\ Lt(computeAsdf(x, bestTau), value)
    THEN Asdf_findAbsoluteThreshold(x, bestTau + 1, maxTau, computeAsdf(x, bestTau))
    ELSE bestTau - 1

\* Asdf.findBestTau: no interpolation
RECURSIVE Asdf_findBestTau(_, _, _, _)
Asdf_findBestTau(x, i, maxTau, threshold) ==
    IF i < maxTau
    THEN IF Lt(computeAsdf(x, i), threshold)
         THEN Num(Asdf_findAbsoluteThreshold(x, i + 1, maxTau, computeAsdf(x, i)))
         ELSE Asdf_findBestTau(x, i + 1, maxTau, threshold)
    ELSE Zero

\* Asdf.detect
Asdf_detect(asdfOptions, x, sampleRate) ==
    LET minTau == Floor(sampleRate, asdfOptions.maxFrequency)
        maxTau == Ceil(sampleRate, asdfOptions.minFrequency)
    IN  Asdf_frequency(Asdf_findBestTau(x, minTau, maxTau, asdfOptions.threshold),
                       sampleRate)

\* frequency = bestTau > 0 ? sampleRate / bestTau : 0   (Yin.detect)
Yin_frequency(bestTau, sampleRate) ==
    IF Lt(Zero, bestTau) THEN Div(Num(sampleRate), bestTau) ELSE Zero

\* variant of Yin_applyParabolicInterpolation: b = prevCmnd - nextCmnd
Yin_applyParabolicInterpolation_mirrored(x, tau, bufferSize, diff, sum, cmnd) ==
    LET prevTau == tau - 1
        nextTau == tau + 1
        prevDiff == computeDiff(x, prevTau)
        nextDiff == computeDiff(x, nextTau)
        prevSum == sum - diff
        nextSum == sum + nextDiff
        prevCmnd == Quot(prevDiff * prevTau, prevSum)
        nextCmnd == Quot(nextDiff * nextTau, nextSum)
        a == Sub(Sub(Scale(2, cmnd), nextCmnd), prevCmnd)
        b == Sub(prevCmnd, nextCmnd)
    IN  IF prevTau < 0 THEN Num(tau)
        ELSE IF bufferSize <= nextTau THEN Num(tau)
        ELSE IF a = Zero THEN Num(tau)
        ELSE Add(Num(tau), Div(b, Scale(2, a)))

\* Yin.applyParabolicInterpolation(samples, tau, bufferSize, diff, sum, cmnd)
Yin_applyParabolicInterpolation(x, tau, bufferSize, diff, sum, cmnd) ==
    LET prevTau == tau - 1
        nextTau == tau + 1
        prevDiff == computeDiff(x, prevTau)
        nextDiff == computeDiff(x, nextTau)
        prevSum == sum - diff
        nextSum == sum + nextDiff
        prevCmnd == Quot(prevDiff * prevTau, prevSum)
        nextCmnd == Quot(nextDiff * nextTau, nextSum)
        a == Sub(Sub(Scale(2, cmnd), nextCmnd), prevCmnd)
        b == Sub(nextCmnd, prevCmnd)
    IN  IF prevTau < 0 THEN Num(tau)
        ELSE IF bufferSize <= nextTau THEN Num(tau)
        ELSE IF a = Zero THEN Num(tau)
        ELSE Add(Num(tau), Div(b, Scale(2, a)))

\* Yin.findAbsoluteThreshold, entered with bestTau = tau + 1 and
\* absoluteSum = sum; diff, sum, cmnd are those of the last accepted lag
RECURSIVE Yin_findAbsoluteThreshold(_, _, _, _, _, _, _)
Yin_findAbsoluteThreshold(x, bestTau, bufferSize, diff, sum, cmnd, absoluteSum) ==
    LET absoluteDiff == computeDiff(x, bestTau)
        newSum == absoluteSum + absoluteDiff
        absoluteCmnd == Quot(absoluteDiff * bestTau, newSum)
    IN  IF bestTau < bufferSize /\ Lt(absoluteCmnd, cmnd)
        THEN Yin_findAbsoluteThreshold(x, bestTau + 1, bufferSize,
                                       absoluteDiff, newSum, absoluteCmnd, newSum)
        ELSE Yin_applyParabolicInterpolation(x, bestTau - 1, bufferSize, diff, sum, cmnd)

\* Yin.findBestTau, entered with i = 1 and sum = 0
RECURSIVE Yin_findBestTau(_, _, _, _, _)
Yin_findBestTau(x, i, bufferSize, threshold, sum0) ==
    LET diff == computeDiff(x, i)
        sum == sum0 + diff
        cmnd == Quot(diff * i, sum)
    IN  IF i < bufferSize
        THEN IF Lt(cmnd, threshold)
             THEN Yin_findAbsoluteThreshold(x, i + 1, bufferSize, diff, sum, cmnd, sum)
             ELSE Yin_findBestTau(x, i + 1, bufferSize, threshold, sum)
        ELSE Zero

\* Yin.detect
Yin_detect(yinOptions, x, sampleRate) ==
    Yin_frequency(Yin_findBestTau(x, 1, yinOptions.bufferSize, yinOptions.threshold, 0),
                  sampleRate)

\* ------------------------------------------------------------ the program
VARIABLES
    kind,        \* the class of the detector object: "Amdf", "Asdf" or "Yin"
    options,     \* its options object (amdfOptions / asdfOptions / yinOptions)
    samples,     \* the samples argument of the running or last detect call
    sampleRate,  \* its sampleRate argument
    pc,          \* where the program is: see below
    frame,       \* the local variables of the running or last detect call
    result,      \* the value the last completed detect call returned, if any
    arg,         \* the argument of the constructor / configure call just made
    prev         \* what the preceding call returned, when the running call
                 \* repeats it on the same buffer, options and sample rate

vars == <<kind, options, samples, sampleRate, pc, frame, result, arg, prev>>

\* pc: "new"         no detector constructed yet
\*     "configured"  the constructor or configure has just returned
\*     "scan"        detect is in the loop of findBestTau
\*     "descend"     detect is in the loop of findAbsoluteThreshold
\*     "refine"      findAbsoluteThreshold has chosen the integer lag
\*     "convert"     findBestTau has returned bestTau
\*     "done"        detect has just returned
Kinds == {"Amdf", "Asdf", "Yin"}
Callable == {"configured", "done"}

\* --------------------------------------------------------- caller's inputs
SampleValues == 0..MaxAmp
Buffers == {Buffer(1, s) : s \in UNION {[1..n -> SampleValues] : n \in 0..MaxLen}}
Rates == (MaxRate - 1)..MaxRate
OptFrequencies == {1, 2, 4}
OptThresholds == {<<1, 2>>, <<1, 1>>}
OptBufferSizes == 3..MaxBufferSize

Option(S) == {Absent} \cup {Supplied(v) : v \in S}
AmdfPartials == [minFrequency : Option(OptFrequencies),
                 maxFrequency : Option(OptFrequencies),
                 threshold : Option(OptThresholds)]
AsdfPartials == AmdfPartials
YinPartials == [bufferSize : Option(OptBufferSizes), threshold : Option(OptThresholds)]

NoSamples == Buffer(1, << >>)
NoCall == << >>
None == << >>

Init ==
    /\ kind \in Kinds
    /\ options = << >>
    /\ samples = NoSamples
    /\ sampleRate = 0
    /\ pc = "new"
    /\ frame = NoCall
    /\ result = None
    /\ arg = << >>
    /\ prev = None

\* --------------------------------------------- construction, configuration
\* new Amdf(p): this.amdfOptions = constructAmdfOptions(); this.configure(p)
AmdfConstruct(p) ==
    /\ kind = "Amdf" /\ pc = "new"
    /\ options' = Amdf_configure(constructAmdfOptions, p)
    /\ arg' = p
    /\ pc' = "configured"
    /\ UNCHANGED <<kind, samples, sampleRate, frame, result, prev>>

AsdfConstruct(p) ==
    /\ kind = "Asdf" /\ pc = "new"
    /\ options' = Asdf_configure(constructAsdfOptions, p)
    /\ arg' = p
    /\ pc' = "configured"
    /\ UNCHANGED <<kind, samples, sampleRate, frame, result, prev>>

YinConstruct(p) ==
    /\ kind = "Yin" /\ pc = "new"
    /\ options' = Yin_configure(constructYinOptions, p)
    /\ arg' = p
    /\ pc' = "configured"
    /\ UNCHANGED <<kind, samples, sampleRate, frame, result, prev>>

\* detector.configure(p), between two detect calls; the caller keeps the
\* value the last call returned
AmdfConfigure(p) ==
    /\ kind = "Amdf" /\ pc \in Callable
    /\ options' = Amdf_configure(options, p)
    /\ arg' = p
    /\ pc' = "configured"
    /\ samples' = NoSamples /\ sampleRate' = 0 /\ frame' = NoCall /\ prev' = None
    /\ UNCHANGED <<kind, result>>

AsdfConfigure(p) ==
    /\ kind = "Asdf" /\ pc \in Callable
    /\ options' = Asdf_configure(options, p)
    /\ arg' = p
    /\ pc' = "configured"
    /\ samples' = NoSamples /\ sampleRate' = 0 /\ frame' = NoCall /\ prev' = None
    /\ UNCHANGED <<kind, result>>

YinConfigure(p) ==
    /\ kind = "Yin" /\ pc \in Callable
    /\ options' = Yin_configure(options, p)
    /\ arg' = p
    /\ pc' = "configured"
    /\ samples' = NoSamples /\ sampleRate' = 0 /\ frame' = NoCall /\ prev' = None
    /\ UNCHANGED <<kind, result>>

\* variant of AmdfDetect: bestTau is a field of the detector that detect
\* does not reset, so it starts from the lag of the call before
AmdfDetect_stale(x, r) ==
    /\ kind = "Amdf" /\ pc \in Callable
    /\ samples' = x
    /\ sampleRate' = r
    /\ frame' = [minTau |-> Floor(r, options.maxFrequency),
                 maxTau |-> Ceil(r, options.minFrequency),
                 threshold |-> options.threshold,
                 i |-> Floor(r, options.maxFrequency),
                 bestTau |-> IF result # None /\ Lt(Zero, result[1])
                             THEN Div(Num(r), result[1]) ELSE Zero,
                 value |-> NaN,
                 absBestTau |-> 0]
    /\ pc' = "scan"
    /\ prev' = IF pc = "done" /\ x = samples /\ r = sampleRate THEN result ELSE None
    /\ result' = None
    /\ arg' = << >>
    /\ UNCHANGED <<kind, options>>

\* ------------------------------------------------------------- Amdf.detect
\* entry of detect and of findBestTau: minTau, maxTau and threshold are
\* computed, bestTau = 0, and the loop variable i starts at minTau
AmdfDetect(x, r) ==
    /\ kind = "Amdf" /\ pc \in Callable
    /\ samples' = x
    /\ sampleRate' = r
    /\ frame' = [minTau |-> Floor(r, options.maxFrequency),
                 maxTau |-> Ceil(r, options.minFrequency),
                 threshold |-> options.threshold,
                 i |-> Floor(r, options.maxFrequency),
                 bestTau |-> Zero,
                 value |-> NaN,
                 absBestTau |-> 0]
    /\ pc' = "scan"
    /\ prev' = IF pc = "done" /\ x = samples /\ r = sampleRate THEN result ELSE None
    /\ result' = None
    /\ arg' = << >>
    /\ UNCHANGED <<kind, options>>

\* variant of AmdfFindBestTau: the scan stops at the first lag whose AMDF is
\* above the threshold
AmdfFindBestTau_above ==
    /\ kind = "Amdf" /\ pc = "scan"
    /\ IF frame.i < frame.maxTau
       THEN LET amdf == computeAmdf(samples, frame.i)
            IN  IF Lt(frame.threshold, amdf)
                THEN /\ frame' = [frame EXCEPT !.value = amdf, !.absBestTau = frame.i + 1]
                     /\ pc' = "descend"
                ELSE /\ frame' = [frame EXCEPT !.i = frame.i + 1]
                     /\ pc' = "scan"
       ELSE /\ frame' = frame
            /\ pc' = "convert"
    /\ UNCHANGED <<kind, options, samples, sampleRate, result, arg, prev>>

\* one iteration of the loop of Amdf.findBestTau, or its exit
AmdfFindBestTau ==
    /\ kind = "Amdf" /\ pc = "scan"
    /\ IF frame.i < frame.maxTau
       THEN LET amdf == computeAmdf(samples, frame.i)
            IN  IF Lt(amdf, frame.threshold)
                THEN /\ frame' = [frame EXCEPT !.value = amdf, !.absBestTau = frame.i + 1]
                     /\ pc' = "descend"
                ELSE /\ frame' = [frame EXCEPT !.i = frame.i + 1]
                     /\ pc' = "scan"
       ELSE /\ frame' = frame
            /\ pc' = "convert"
    /\ UNCHANGED <<kind, options, samples, sampleRate, result, arg, prev>>

\* variant of AmdfFindAbsoluteThreshold: the descent goes on while the
\* metric does not increase (amdf <= value)
AmdfFindAbsoluteThreshold_le ==
    /\ kind = "Amdf" /\ pc = "descend"
    /\ IF /\ frame.absBestTau < frame.maxTau
          /\ ~IsNaN(computeAmdf(samples, frame.absBestTau))
          /\ ~Lt(frame.value, computeAmdf(samples, frame.absBestTau))
       THEN /\ frame' = [frame EXCEPT !.value = computeAmdf(samples, frame.absBestTau),
                                      !.absBestTau = frame.absBestTau + 1]
            /\ pc' = "descend"
       ELSE /\ frame' = [frame EXCEPT !.bestTau = Num(frame.absBestTau - 1)]
            /\ pc' = "refine"
    /\ UNCHANGED <<kind, options, samples, sampleRate, result, arg, prev>>

\* one iteration of the loop of Amdf.findAbsoluteThreshold (absBestTau is
\* its local bestTau), or its exit, which returns absBestTau - 1
AmdfFindAbsoluteThreshold ==
    /\ kind = "Amdf" /\ pc = "descend"
    /\ IF /\ frame.absBestTau < frame.maxTau
          /\ Lt(computeAmdf(samples, frame.absBestTau), frame.value)
       THEN /\ frame' = [frame EXCEPT !.value = computeAmdf(samples, frame.absBestTau),
                                      !.absBestTau = frame.absBestTau + 1]
            /\ pc' = "descend"
       ELSE /\ frame' = [frame EXCEPT !.bestTau = Num(frame.absBestTau - 1)]
            /\ pc' = "refine"
    /\ UNCHANGED <<kind, options, samples, sampleRate, result, arg, prev>>

\* bestTau = this.applyParabolicInterpolation(samples, bestTau)
AmdfRefine ==
    /\ kind = "Amdf" /\ pc = "refine"
    /\ frame' = [frame EXCEPT
                   !.bestTau = applyParabolicInterpolation(samples, frame.absBestTau - 1)]
    /\ pc' = "convert"
    /\ UNCHANGED <<kind, options, samples, sampleRate, result, arg, prev>>

\* detect converts bestTau to a frequency and returns it
AmdfReturn ==
    /\ kind = "Amdf" /\ pc = "convert"
    /\ result' = <<Amdf_frequency(frame.bestTau, sampleRate)>>
    /\ pc' = "done"
    /\ UNCHANGED <<kind, options, samples, sampleRate, frame, arg, prev>>

\* variant of AsdfDetect: maxTau rounded down
AsdfDetect_floor(x, r) ==
    /\ kind = "Asdf" /\ pc \in Callable
    /\ samples' = x
    /\ sampleRate' = r
    /\ frame' = [minTau |-> Floor(r, options.maxFrequency),
                 maxTau |-> Floor(r, options.minFrequency),
                 threshold |-> options.threshold,
                 i |-> Floor(r, options.maxFrequency),
                 bestTau |-> Zero,
                 value |-> NaN,
                 absBestTau |-> 0]
    /\ pc' = "scan"
    /\ prev' = IF pc = "done" /\ x = samples /\ r = sampleRate THEN result ELSE None
    /\ result' = None
    /\ arg' = << >>
    /\ UNCHANGED <<kind, options>>

\* ------------------------------------------------------------- Asdf.detect
\* entry of detect and of findBestTau: minTau, maxTau and threshold are
\* computed, bestTau = 0, and the loop variable i starts at minTau
AsdfDetect(x, r) ==
    /\ kind = "Asdf" /\ pc \in Callable
    /\ samples' = x
    /\ sampleRate' = r
    /\ frame' = [minTau |-> Floor(r, options.maxFrequency),
                 maxTau |-> Ceil(r, options.minFrequency),
                 threshold |-> options.threshold,
                 i |-> Floor(r, options.maxFrequency),
                 bestTau |-> Zero,
                 value |-> NaN,
                 absBestTau |-> 0]
    /\ pc' = "scan"
    /\ prev' = IF pc = "done" /\ x = samples /\ r = sampleRate THEN result ELSE None
    /\ result' = None
    /\ arg' = << >>
    /\ UNCHANGED <<kind, options>>

\* variant of AsdfFindBestTau: the loop runs while i <= maxTau
AsdfFindBestTau_inclusive ==
    /\ kind = "Asdf" /\ pc = "scan"
    /\ IF frame.i <= frame.maxTau
       THEN LET asdf == computeAsdf(samples, frame.i)
            IN  IF Lt(asdf, frame.threshold)
                THEN /\ frame' = [frame EXCEPT !.value = asdf, !.absBestTau = frame.i + 1]
                     /\ pc' = "descend"
                ELSE /\ frame' = [frame EXCEPT !.i = frame.i + 1]
                     /\ pc' = "scan"
       ELSE /\ frame' = frame
            /\ pc' = "convert"
    /\ UNCHANGED <<kind, options, samples, sampleRate, result, arg, prev>>

\* one iteration of the loop of Asdf.findBestTau, or its exit
AsdfFindBestTau ==
    /\ kind = "Asdf" /\ pc = "scan"
    /\ IF frame.i < frame.maxTau
       THEN LET asdf == computeAsdf(samples, frame.i)
            IN  IF Lt(asdf, frame.threshold)
                THEN /\ frame' = [frame EXCEPT !.value = asdf, !.absBestTau = frame.i + 1]
                     /\ pc' = "descend"
                ELSE /\ frame' = [frame EXCEPT !.i = frame.i + 1]
                     /\ pc' = "scan"
       ELSE /\ frame' = frame
            /\ pc' = "convert"
    /\ UNCHANGED <<kind, options, samples, sampleRate, result, arg, prev>>

\* variant of AsdfFindAbsoluteThreshold: the loop takes the new value but does not advance bestTau
AsdfFindAbsoluteThreshold_stuck ==
    /\ kind = "Asdf" /\ pc = "descend"
    /\ IF /\ frame.absBestTau < frame.maxTau
          /\ Lt(computeAsdf(samples, frame.absBestTau), frame.value)
       THEN /\ frame' = [frame EXCEPT !.value = computeAsdf(samples, frame.absBestTau)]
            /\ pc' = "descend"
       ELSE /\ frame' = [frame EXCEPT !.bestTau = Num(frame.absBestTau - 1)]
            /\ pc' = "convert"
    /\ UNCHANGED <<kind, options, samples, sampleRate, result, arg, prev>>

\* one iteration of the loop of Asdf.findAbsoluteThreshold (absBestTau is
\* its local bestTau), or its exit, which returns absBestTau - 1
AsdfFindAbsoluteThreshold ==
    /\ kind = "Asdf" /\ pc = "descend"
    /\ IF /\ frame.absBestTau < frame.maxTau
          /\ Lt(computeAsdf(samples, frame.absBestTau), frame.value)
       THEN /\ frame' = [frame EXCEPT !.value = computeAsdf(samples, frame.absBestTau),
                                      !.absBestTau = frame.absBestTau + 1]
            /\ pc' = "descend"
       ELSE /\ frame' = [frame EXCEPT !.bestTau = Num(frame.absBestTau - 1)]
            /\ pc' = "convert"
    /\ UNCHANGED <<kind, options, samples, sampleRate, result, arg, prev>>

\* detect converts bestTau to a frequency and returns it
AsdfReturn ==
    /\ kind = "Asdf" /\ pc = "convert"
    /\ result' = <<Asdf_frequency(frame.bestTau, sampleRate)>>
    /\ pc' = "done"
    /\ UNCHANGED <<kind, options, samples, sampleRate, frame, arg, prev>>

\* variant of YinDetect: the lags searched are bounded by samples.length
YinDetect_length(x, r) ==
    /\ kind = "Yin" /\ pc \in Callable
    /\ options.bufferSize <= MaxBufferSize
    /\ samples' = x
    /\ sampleRate' = r
    /\ frame' = [bufferSize |-> Length(x),
                 threshold |-> options.threshold,
                 i |-> 1,
                 bestTau |-> Zero,
                 diff |-> 0, sum |-> 0, cmnd |-> Num(1),
                 absBestTau |-> 0,
                 absoluteSum |-> 0]
    /\ pc' = "scan"
    /\ prev' = IF pc = "done" /\ x = samples /\ r = sampleRate THEN result ELSE None
    /\ result' = None
    /\ arg' = << >>
    /\ UNCHANGED <<kind, options>>

\* --------------------------------------------------------------- Yin.detect
\* entry of detect and of findBestTau: bestTau = 0, diff = 0, sum = 0,
\* cmnd = 1, and the loop variable i starts at 1 (calls with the default
\* bufferSize of 1024 lie beyond the bound of the exploration)
YinDetect(x, r) ==
    /\ kind = "Yin" /\ pc \in Callable
    /\ options.bufferSize <= MaxBufferSize
    /\ samples' = x
    /\ sampleRate' = r
    /\ frame' = [bufferSize |-> options.bufferSize,
                 threshold |-> options.threshold,
                 i |-> 1,
                 bestTau |-> Zero,
                 diff |-> 0, sum |-> 0, cmnd |-> Num(1),
                 absBestTau |-> 0,
                 absoluteSum |-> 0]
    /\ pc' = "scan"
    /\ prev' = IF pc = "done" /\ x = samples /\ r = sampleRate THEN result ELSE None
    /\ result' = None
    /\ arg' = << >>
    /\ UNCHANGED <<kind, options>>

\* one iteration of the loop of Yin.findBestTau, or its exit
YinFindBestTau ==
    /\ kind = "Yin" /\ pc = "scan"
    /\ IF frame.i < frame.bufferSize
       THEN LET diff == computeDiff(samples, frame.i)
                sum == frame.sum + diff
                cmnd == Quot(diff * frame.i, sum)
            IN  IF Lt(cmnd, frame.threshold)
                THEN /\ frame' = [frame EXCEPT !.diff = diff, !.sum = sum, !.cmnd = cmnd,
                                               !.absBestTau = frame.i + 1,
                                               !.absoluteSum = sum]
                     /\ pc' = "descend"
                ELSE /\ frame' = [frame EXCEPT !.diff = diff, !.sum = sum, !.cmnd = cmnd,
                                               !.i = frame.i + 1]
                     /\ pc' = "scan"
       ELSE /\ frame' = frame
            /\ pc' = "convert"
    /\ UNCHANGED <<kind, options, samples, sampleRate, result, arg, prev>>

\* variant of YinFindAbsoluteThreshold: the absolute threshold reached is
\* written back to the options object
YinFindAbsoluteThreshold_caching ==
    /\ kind = "Yin" /\ pc = "descend"
    /\ IF frame.absBestTau < frame.bufferSize
       THEN LET absoluteDiff == computeDiff(samples, frame.absBestTau)
                absoluteSum == frame.absoluteSum + absoluteDiff
                absoluteCmnd == Quot(absoluteDiff * frame.absBestTau, absoluteSum)
            IN  IF Lt(absoluteCmnd, frame.cmnd)
                THEN /\ frame' = [frame EXCEPT !.diff = absoluteDiff,
                                               !.sum = absoluteSum,
                                               !.cmnd = absoluteCmnd,
                                               !.absoluteSum = absoluteSum,
                                               !.absBestTau = frame.absBestTau + 1]
                     /\ pc' = "descend"
                     /\ options' = [options EXCEPT !.threshold = absoluteCmnd]
                ELSE /\ frame' = [frame EXCEPT !.absoluteSum = absoluteSum]
                     /\ pc' = "refine"
                     /\ options' = options
       ELSE /\ frame' = frame
            /\ pc' = "refine"
            /\ options' = options
    /\ UNCHANGED <<kind, samples, sampleRate, result, arg, prev>>

\* one iteration of the loop of Yin.findAbsoluteThreshold (absBestTau is its
\* local bestTau), or its exit; diff, sum, cmnd stay those of the last
\* accepted lag, absoluteSum also counts the lag that was rejected
YinFindAbsoluteThreshold ==
    /\ kind = "Yin" /\ pc = "descend"
    /\ IF frame.absBestTau < frame.bufferSize
       THEN LET absoluteDiff == computeDiff(samples, frame.absBestTau)
                absoluteSum == frame.absoluteSum + absoluteDiff
                absoluteCmnd == Quot(absoluteDiff * frame.absBestTau, absoluteSum)
            IN  IF Lt(absoluteCmnd, frame.cmnd)
                THEN /\ frame' = [frame EXCEPT !.diff = absoluteDiff,
                                               !.sum = absoluteSum,
                                               !.cmnd = absoluteCmnd,
                                               !.absoluteSum = absoluteSum,
                                               !.absBestTau = frame.absBestTau + 1]
                     /\ pc' = "descend"
                ELSE /\ frame' = [frame EXCEPT !.absoluteSum = absoluteSum]
                     /\ pc' = "refine"
       ELSE /\ frame' = frame
            /\ pc' = "refine"
    /\ UNCHANGED <<kind, options, samples, sampleRate, result, arg, prev>>

\* variant of YinRefine: interpolates at bestTau instead of bestTau - 1
YinRefine_next ==
    /\ kind = "Yin" /\ pc = "refine"
    /\ frame' = [frame EXCEPT
                   !.bestTau = Yin_applyParabolicInterpolation(samples,
                                   frame.absBestTau, frame.bufferSize,
                                   frame.diff, frame.sum, frame.cmnd)]
    /\ pc' = "convert"
    /\ UNCHANGED <<kind, options, samples, sampleRate, result, arg, prev>>

\* return this.applyParabolicInterpolation(samples, bestTau - 1, bufferSize,
\* diff, sum, cmnd), which findBestTau assigns to its bestTau
YinRefine ==
    /\ kind = "Yin" /\ pc = "refine"
    /\ frame' = [frame EXCEPT
                   !.bestTau = Yin_applyParabolicInterpolation(samples,
                                   frame.absBestTau - 1, frame.bufferSize,
                                   frame.diff, frame.sum, frame.cmnd)]
    /\ pc' = "convert"
    /\ UNCHANGED <<kind, options, samples, sampleRate, result, arg, prev>>

\* detect converts bestTau to a frequency and returns it
YinReturn ==
    /\ kind = "Yin" /\ pc = "convert"
    /\ result' = <<Yin_frequency(frame.bestTau, sampleRate)>>
    /\ pc' = "done"
    /\ UNCHANGED <<kind, options, samples, sampleRate, frame, arg, prev>>

\* ---------------------------------------------------------------- behaviour
Next ==
    \/ \E p \in AmdfPartials : AmdfConstruct(p)
    \/ \E p \in AsdfPartials : AsdfConstruct(p)
    \/ \E p \in YinPartials : YinConstruct(p)
    \/ \E p \in AmdfPartials : AmdfConfigure(p)
    \/ \E p \in AsdfPartials : AsdfConfigure(p)
    \/ \E p \in YinPartials : YinConfigure(p)
    \/ \E x \in Buffers, r \in Rates : AmdfDetect(x, r)
    \/ AmdfFindBestTau
    \/ AmdfFindAbsoluteThreshold
    \/ AmdfRefine
    \/ AmdfReturn
    \/ \E x \in Buffers, r \in Rates : AsdfDetect(x, r)
    \/ AsdfFindBestTau
    \/ AsdfFindAbsoluteThreshold
    \/ AsdfReturn
    \/ \E x \in Buffers, r \in Rates : YinDetect(x, r)
    \/ YinFindBestTau
    \/ YinFindAbsoluteThreshold
    \/ YinRefine
    \/ YinReturn

Spec == Init /\ [][Next]_vars

\* ------------------------------------------------------- the repository's test
\* 'should detect pitch correctly' (pitch-detector.spec.ts): detectors built
\* without options are run at 44100 Hz on sine waves of known frequency and
\* the result has to lie within 5 Hz of it.
\*
\* generateWaveSamples(frequency, 44100): Math.sin(i / (44100 / frequency /
\* (2 * PI))), tabulated here to four decimals for the first 160 samples (the
\* lags a default Amdf reaches on these tones stay below 101; on the whole
\* second, in Float32, the code selects the same integer lags).
WaveSamples440 ==
    Buffer(10000, <<
        0, 626, 1251, 1870, 2481, 3083, 3673, 4249, 4808, 5347,
        5866, 6362, 6833, 7277, 7692, 8078, 8431, 8751, 9037, 9288,
        9502, 9678, 9817, 9917, 9978, 10000, 9983, 9926, 9830, 9696,
        9524, 9314, 9068, 8786, 8469, 8119, 7738, 7326, 6885, 6417,
        5924, 5407, 4870, 4313, 3739, 3151, 2550, 1940, 1321, 698,
        71, -555, -1180, -1800, -2412, -3016, -3607, -4184, -4745, -5287,
        -5808, -6307, -6781, -7228, -7647, -8035, -8393, -8717, -9007, -9261,
        -9479, -9660, -9803, -9908, -9973, -9999, -9986, -9934, -9843, -9713,
        -9545, -9340, -9097, -8819, -8507, -8161, -7783, -7374, -6936, -6471,
        -5981, -5467, -4932, -4377, -3805, -3219, -2619, -2009, -1392, -769,
        -142, 484, 1109, 1729, 2343, 2948, 3540, 4119, 4682, 5227,
        5750, 6252, 6728, 7179, 7601, 7993, 8354, 8682, 8975, 9234,
        9456, 9642, 9789, 9898, 9968, 9998, 9990, 9942, 9855, 9730,
        9566, 9365, 9127, 8853, 8544, 8202, 7827, 7422, 6987, 6526,
        6038, 5527, 4994, 4441, 3871, 3286, 2688, 2079, 1462, 840,
        214, -413, -1038, -1659, -2274, -2879, -3474, -4054, -4619, -5166 >>)

WaveSamples510 ==
    Buffer(10000, <<
        0, 726, 1448, 2163, 2866, 3554, 4223, 4870, 5491, 6083,
        6644, 7169, 7656, 8103, 8507, 8866, 9178, 9442, 9656, 9820,
        9931, 9990, 9996, 9950, 9851, 9700, 9497, 9245, 8944, 8595,
        8202, 7765, 7287, 6770, 6218, 5633, 5018, 4377, 3713, 3029,
        2329, 1617, 896, 171, -555, -1279, -1995, -2702, -3393, -4067,
        -4720, -5347, -5947, -6515, -7048, -7545, -8001, -8416, -8786, -9109,
        -9385, -9611, -9786, -9909, -9981, -9999, -9965, -9879, -9740, -9549,
        -9309, -9019, -8682, -8298, -7871, -7403, -6895, -6351, -5774, -5166,
        -4530, -3871, -3192, -2495, -1786, -1067, -342, 385, 1109, 1828,
        2537, 3232, 3911, 4568, 5202, 5808, 6384, 6926, 7431, 7898,
        8322, 8703, 9037, 9324, 9562, 9749, 9885, 9969, 10000, 9978,
        9904, 9777, 9599, 9370, 9091, 8765, 8393, 7976, 7517, 7018,
        6482, 5912, 5311, 4682, 4028, 3353, 2660, 1954, 1236, 513,
        -214, -939, -1659, -2371, -3070, -3753, -4416, -5055, -5668, -6252,
        -6802, -7316, -7792, -8226, -8617, -8963, -9261, -9511, -9710, -9858,
        -9954, -9997, -9988, -9926, -9811, -9645, -9428, -9161, -8846, -8484 >>)

WaveSamples600 ==
    Buffer(10000, <<
        0, 854, 1701, 2537, 3353, 4145, 4907, 5633, 6318, 6957,
        7545, 8078, 8551, 8963, 9309, 9587, 9795, 9931, 9995, 9986,
        9904, 9749, 9524, 9229, 8866, 8439, 7950, 7403, 6802, 6151,
        5455, 4720, 3950, 3151, 2329, 1490, 641, -214, -1067, -1912,
        -2743, -3554, -4339, -5092, -5808, -6482, -7109, -7683, -8202, -8660,
        -9056, -9385, -9645, -9835, -9954, -9999, -9972, -9872, -9700, -9456,
        -9144, -8765, -8322, -7818, -7257, -6644, -5981, -5275, -4530, -3753,
        -2948, -2121, -1279, -427, 427, 1279, 2121, 2948, 3753, 4530,
        5275, 5981, 6644, 7257, 7818, 8322, 8765, 9144, 9456, 9700,
        9872, 9972, 9999, 9954, 9835, 9645, 9385, 9056, 8660, 8202,
        7683, 7109, 6482, 5808, 5092, 4339, 3554, 2743, 1912, 1067,
        214, -641, -1490, -2329, -3151, -3950, -4720, -5455, -6151, -6802,
        -7403, -7950, -8439, -8866, -9229, -9524, -9749, -9904, -9986, -9995,
        -9931, -9795, -9587, -9309, -8963, -8551, -8078, -7545, -6957, -6318,
        -5633, -4907, -4145, -3353, -2537, -1701, -854, 0, 854, 1701,
        2537, 3353, 4145, 4907, 5633, 6318, 6957, 7545, 8078, 8551 >>)

WaveSamples686 ==
    Buffer(10000, <<
        0, 976, 1942, 2890, 3811, 4695, 5534, 6320, 7046, 7705,
        8290, 8796, 9219, 9553, 9796, 9945, 10000, 9959, 9823, 9593,
        9272, 8862, 8368, 7793, 7145, 6428, 5650, 4818, 3939, 3024,
        2079, 1115, 140, -837, -1805, -2756, -3681, -4571, -5417, -6211,
        -6947, -7615, -8211, -8729, -9164, -9511, -9767, -9930, -9998, -9971,
        -9848, -9632, -9323, -8926, -8443, -7880, -7242, -6534, -5764, -4939,
        -4067, -3156, -2215, -1253, -279, 698, 1668, 2622, 3551, 4446,
        5299, 6101, 6845, 7524, 8131, 8660, 9107, 9466, 9736, 9912,
        9994, 9980, 9871, 9668, 9373, 8988, 8517, 7965, 7337, 6639,
        5878, 5060, 4195, 3289, 2351, 1392, 419, -558, -1530, -2487,
        -3420, -4321, -5180, -5990, -6743, -7431, -8049, -8590, -9048, -9421,
        -9703, -9893, -9988, -9988, -9893, -9703, -9421, -9048, -8590, -8049,
        -7431, -6743, -5990, -5180, -4321, -3420, -2487, -1530, -558, 419,
        1392, 2351, 3289, 4195, 5060, 5878, 6639, 7337, 7965, 8517,
        8988, 9373, 9668, 9871, 9980, 9994, 9912, 9736, 9466, 9107,
        8660, 8131, 7524, 6845, 6101, 5299, 4446, 3551, 2622, 1668 >>)

ToneRate == 44100
ToneFrequencies == {440, 510, 600, 686}
ToneRange == 5

generateWaveSamples(f) ==
    CASE f = 440 -> WaveSamples440
      [] f = 510 -> WaveSamples510
      [] f = 600 -> WaveSamples600
      [] f = 686 -> WaveSamples686

\* new Amdf()
ToneConstruct == AmdfConstruct([minFrequency |-> Absent, maxFrequency |-> Absent,
                                threshold |-> Absent])

\* pitchDetector.detect(generateWaveSamples(frequency, sampleRate), sampleRate)
ToneDetect(f) == AmdfDetect(generateWaveSamples(f), ToneRate)

InitTone == Init /\ kind = "Amdf"

NextTone ==
    \/ ToneConstruct
    \/ \E f \in ToneFrequencies : ToneDetect(f)
    \/ AmdfFindBestTau
    \/ AmdfFindAbsoluteThreshold
    \/ AmdfRefine
    \/ AmdfReturn

SpecTone == InitTone /\ [][NextTone]_vars

\* checkFrequency(detectedFrequency, expectedFrequency, range)
checkFrequency(detectedFrequency, expectedFrequency, range) ==
    /\ ~Lt(detectedFrequency, Num(expectedFrequency - range))
    /\ ~IsNaN(detectedFrequency)
    /\ ~Lt(Num(expectedFrequency + range), detectedFrequency)

\* ------------------------------------------------- vocabulary of the claims
InCall == pc \in {"scan", "descend", "refine", "convert"}

\* the lag range the running or last call searches: [MinLag, MaxLag)
MinLag == IF kind = "Yin" THEN 1 ELSE frame.minTau
MaxLag == IF kind = "Yin" THEN frame.bufferSize ELSE frame.maxTau

\* diff(1) + ... + diff(t), for t = 1 .. n, as a sequence
RECURSIVE DiffSums(_, _, _, _)
DiffSums(x, n, acc, sum) ==
    IF Len(acc) >= n THEN acc
    ELSE DiffSums(x, n, Append(acc, sum + computeDiff(x, Len(acc) + 1)),
                  sum + computeDiff(x, Len(acc) + 1))

\* the cumulative mean normalized difference at lag t >= 1
Cmnd(x, t, sums) == Quot(computeDiff(x, t) * t, sums[t])

\* the metric of the detector at every lag of 0 .. n - 1, as a sequence
\* indexed from 1 (the metric at lag t is MetricTable(n)[t + 1])
MetricTable(n) ==
    IF kind = "Amdf" THEN [k \in 1..n |-> computeAmdf(samples, k - 1)]
    ELSE IF kind = "Asdf" THEN [k \in 1..n |-> computeAsdf(samples, k - 1)]
    ELSE LET sums == DiffSums(samples, n, << >>, 0)
         IN  [k \in 1..n |-> IF k = 1 THEN Num(1) ELSE Cmnd(samples, k - 1, sums)]

\* the lags of the searched range whose metric is below the threshold
Qualifying ==
    LET m == MetricTable(MaxLag)
    IN  {t \in MinLag..(MaxLag - 1) : Lt(m[t + 1], frame.threshold)}

\* the scan found a lag: the loop of findBestTau was left by its break
Found == frame.i < MaxLag
\* the integer lag findAbsoluteThreshold returned
ChosenLag == frame.absBestTau - 1

\* C1: on a pure sine wave of frequency f sampled at 44100 Hz, a detector
\* with default options returns a value within 5 Hz of f (here: Amdf, on the
\* tones 440, 510, 600 and 686 Hz).
SineWithinFiveHz ==
    (pc = "done" /\ sampleRate = ToneRate) =>
        \A f \in ToneFrequencies :
            samples = generateWaveSamples(f) =>
                checkFrequency(result[1], f, ToneRange)

\* C2: when no lag of the searched range has a metric value strictly below
\* the threshold, detect returns exactly 0.
NoPitchIsZero ==
    (pc = "done" /\ Qualifying = {}) => result = <<Zero>>

\* C2 witness: a call over a non-empty lag range in which no lag qualified
\* has returned 0.
NoPitchWitness ==
    /\ pc = "done"
    /\ MinLag < MaxLag
    /\ MaxLag <= Length(samples)
    /\ Qualifying = {}
    /\ result = <<Zero>>

\* a call the spec calls well-formed: 0 < minFrequency < maxFrequency,
\* 0 < threshold <= 1, and every lag searched has 1 <= lag < buffer length
WellFormed ==
    /\ kind \in {"Amdf", "Asdf"} => options.minFrequency < options.maxFrequency
    /\ ~Lt(Num(1), options.threshold)
    /\ 1 <= MinLag
    /\ MaxLag <= Length(samples)

\* a call with 0 < minFrequency < maxFrequency on a buffer that is longer
\* than the first lag searched
Sane ==
    /\ kind \in {"Amdf", "Asdf"} => options.minFrequency < options.maxFrequency
    /\ 1 <= MinLag
    /\ MinLag < Length(samples)

\* C3: detect returns the sentinel 0 only if the lag search failed; whenever
\* some lag of the searched range qualifies, the value returned is a finite
\* frequency strictly greater than 0, equal to sampleRate / (refined lag).
\* (Stated for well-formed calls; the claim asserts it for all calls.)
SentinelNeverCollides ==
    (pc = "done" /\ WellFormed /\ Qualifying # {}) =>
        /\ Lt(Zero, result[1])
        /\ result[1] = Div(Num(sampleRate), frame.bestTau)

\* the option fields of the detector
Fields == IF kind = "Yin" THEN {"bufferSize", "threshold"}
          ELSE {"minFrequency", "maxFrequency", "threshold"}

\* C4: configure(p) sets exactly the option fields that p supplies to the
\* supplied values and leaves every other option field at its prior value.
ConfigureMergeLaw ==
    [][(pc # "new" /\ pc' = "configured") =>
          /\ DOMAIN options' = Fields
          /\ \A f \in Fields :
                options'[f] = IF arg'[f] # Absent THEN arg'[f][1] ELSE options[f]]_vars

\* C4 witness: configure({threshold: t}) has run on a detector whose other
\* fields had been configured away from their defaults, and they are kept.
ConfigureMergeWitness ==
    /\ pc = "configured"
    /\ kind = "Asdf"
    /\ arg.threshold # Absent /\ arg.minFrequency = Absent /\ arg.maxFrequency = Absent
    /\ options.threshold = arg.threshold[1]
    /\ options.minFrequency # 50 /\ options.maxFrequency # 1000

\* the defaults the README documents
DocumentedDefaults ==
    IF kind = "Yin" THEN [bufferSize |-> 1024, threshold |-> <<1, 10>>]
    ELSE [minFrequency |-> 50, maxFrequency |-> 1000, threshold |-> <<1, 10>>]

\* C5: a detector constructed with options p has the documented defaults,
\* overridden by exactly the fields p supplies (all defaults when p is {}).
ConstructionDefaults ==
    [][(pc = "new" /\ pc' = "configured") =>
          /\ DOMAIN options' = Fields
          /\ \A f \in Fields :
                options'[f] = IF arg'[f] # Absent THEN arg'[f][1]
                              ELSE DocumentedDefaults[f]]_vars

\* C5 witness: a Yin detector constructed without options holds bufferSize
\* 1024 and threshold 0.1
ConstructionDefaultsWitness ==
    /\ pc = "configured" /\ result = None
    /\ \A f \in Fields : arg[f] = Absent
    /\ kind = "Yin"
    /\ options.bufferSize = 1024 /\ options.threshold = <<1, 10>>

\* detect of the detector's class, as a function of its three inputs
DetectOf(k, o, x, r) ==
    IF k = "Amdf" THEN Amdf_detect(o, x, r)
    ELSE IF k = "Asdf" THEN Asdf_detect(o, x, r)
    ELSE Yin_detect(o, x, r)

\* C6: whatever calls came before, the value detect returns is the function
\* of samples, sampleRate and the current option values that a freshly
\* constructed detector computes, and a call repeated at once returns the
\* identical value.
NoHiddenState ==
    pc = "done" =>
        /\ result = <<DetectOf(kind, options, samples, sampleRate)>>
        /\ prev # None => result = prev

\* C6 witness: a call that found a pitch was repeated and has returned
NoHiddenStateWitness ==
    /\ pc = "done"
    /\ prev # None
    /\ Lt(Zero, result[1])

\* C7: a detect call leaves every option field of the detector and every
\* element of the sample buffer unchanged.
DetectIsReadOnly ==
    [][(InCall \/ InCall') =>
          /\ options' = options
          /\ InCall => samples' = samples]_vars

\* C7 witness: a call on a configured Yin detector and a full buffer has
\* found a pitch and returned
DetectIsReadOnlyWitness ==
    /\ pc = "done"
    /\ kind = "Yin"
    /\ options.threshold # <<1, 10>>
    /\ Length(samples) = MaxLen
    /\ Found

\* C8: when some lag of the range qualifies, the integer lag chosen is the
\* first local minimum after the first sub-threshold crossing: with i the
\* smallest qualifying lag, the chosen t has t >= i, the metric strictly
\* decreases on i .. t, and t + 1 = maxTau or the metric at t + 1 is not
\* below the metric at t.
ThresholdAndDescend ==
    (pc \in {"refine", "convert", "done"}) =>
        LET m == MetricTable(MaxLag)
            t == ChosenLag
        IN  /\ Found <=> Qualifying # {}
            /\ Found =>
                 /\ \A k \in MinLag..(frame.i - 1) : k \notin Qualifying
                 /\ frame.i \in Qualifying
                 /\ frame.i <= t /\ t < MaxLag
                 /\ \A k \in frame.i..(t - 1) : Lt(m[k + 2], m[k + 1])
                 /\ t + 1 = MaxLag \/ ~Lt(m[t + 2], m[t + 1])

\* C8 witness: the search descended from the first crossing to a later lag
\* and stopped inside the range, where the metric stops decreasing
ThresholdAndDescendWitness ==
    /\ pc = "convert"
    /\ kind = "Amdf"
    /\ Found
    /\ frame.i < ChosenLag
    /\ ChosenLag + 1 < MaxLag

\* C9: every lag at which a metric is evaluated, and the lag from which
\* detect computes the frequency, satisfies 0 <= lag < buffer length.
\* (Stated for calls with 0 < minFrequency < maxFrequency and a buffer longer
\* than the first lag searched; the claim asserts it for all calls.)
LagWithinBuffer ==
    (InCall /\ Sane) =>
        /\ (pc = "scan" /\ frame.i < MaxLag) =>
               (0 <= frame.i /\ frame.i < Length(samples))
        /\ (pc = "descend" /\ frame.absBestTau < MaxLag) =>
               frame.absBestTau < Length(samples)
        /\ (pc \in {"refine", "convert"} /\ Found) =>
               ChosenLag < Length(samples)

\* C10: when the chosen integer lag is 0 or the last lag of the searched
\* range, no refinement is applied: the frequency is computed from the
\* unrefined integer lag.
\* (Stated for well-formed calls; the claim asserts it for all calls.)
NoRefinementAtBoundary ==
    (pc \in {"convert", "done"} /\ WellFormed /\ Found
        /\ (ChosenLag = 0 \/ ChosenLag = MaxLag - 1)) =>
            frame.bestTau = Num(ChosenLag)

\* ----------------------------------------------------- threshold and scan
\* the loop of Amdf.findBestTau up to its break: the first lag of i .. maxTau-1
\* whose AMDF is below the threshold, maxTau when the loop runs out
RECURSIVE Amdf_firstCrossing(_, _, _, _)
Amdf_firstCrossing(x, i, maxTau, threshold) ==
    IF i < maxTau
    THEN IF Lt(computeAmdf(x, i), threshold) THEN i
         ELSE Amdf_firstCrossing(x, i + 1, maxTau, threshold)
    ELSE maxTau

\* the loop of Asdf.findBestTau up to its break
RECURSIVE Asdf_firstCrossing(_, _, _, _)
Asdf_firstCrossing(x, i, maxTau, threshold) ==
    IF i < maxTau
    THEN IF Lt(computeAsdf(x, i), threshold) THEN i
         ELSE Asdf_firstCrossing(x, i + 1, maxTau, threshold)
    ELSE maxTau

\* the loop of Yin.findBestTau up to its break (sum0 is the running sum)
RECURSIVE Yin_firstCrossing(_, _, _, _, _)
Yin_firstCrossing(x, i, bufferSize, threshold, sum0) ==
    IF i < bufferSize
    THEN IF Lt(Quot(computeDiff(x, i) * i, sum0 + computeDiff(x, i)), threshold) THEN i
         ELSE Yin_firstCrossing(x, i + 1, bufferSize, threshold, sum0 + computeDiff(x, i))
    ELSE bufferSize

\* the lag at which the scan of the running call would break under the
\* threshold th, MaxLag if it would not
FirstCrossing(th) ==
    IF kind = "Amdf" THEN Amdf_firstCrossing(samples, MinLag, MaxLag, th)
    ELSE IF kind = "Asdf" THEN Asdf_firstCrossing(samples, MinLag, MaxLag, th)
    ELSE Yin_firstCrossing(samples, 1, MaxLag, th, 0)

\* the thresholds compared
Thresholds == OptThresholds \cup {constructAmdfOptions.threshold}

\* C11: on the same buffer, sample rate and lag range, when a lag qualifies
\* under the threshold of the call, then under every threshold that is not
\* smaller some lag qualifies, and the earliest one is no later.
ThresholdMonotone ==
    (pc \in {"descend", "refine", "convert", "done"} /\ Found) =>
        \A th \in Thresholds :
            ~Lt(th, frame.threshold) =>
                /\ FirstCrossing(th) < MaxLag
                /\ FirstCrossing(th) <= frame.i

\* C11 witness: the scan has stopped at a lag, and under a looser threshold
\* it would have stopped strictly earlier
ThresholdMonotoneWitness ==
    /\ pc = "done"
    /\ Found
    /\ \E th \in Thresholds :
          /\ Lt(frame.threshold, th)
          /\ FirstCrossing(th) < frame.i

\* ------------------------------------------------------------------ McLeod
\* McLeod (pitch-detectors/yin.ts): constructed with a buffer size and a
\* threshold, it has no configure.  Its detect is modelled in the four steps
\* computeNsdf, findPeaks, the selection of the highest peak followed by the
\* interpolation, and the return.  The detector object is the record
\* options = [bufferSize, threshold]; the locals of a call are
\* frame = [nsdf, peaks, maxIndex, betterTau].
\*
\* An array read past the end of a Float32Array yields undefined, and every
\* sum it enters is NaN.

\* the two sums of McLeod.computeNsdf for one tau, over j = lo .. hi
RECURSIVE NsdfAcf(_, _, _, _)
NsdfAcf(x, tau, lo, hi) ==
    IF hi < lo THEN 0
    ELSE Sample(x, lo) * Sample(x, lo + tau) + NsdfAcf(x, tau, lo + 1, hi)

RECURSIVE NsdfDivisor(_, _, _, _)
NsdfDivisor(x, tau, lo, hi) ==
    IF hi < lo THEN 0
    ELSE Sample(x, lo) * Sample(x, lo) + Sample(x, lo + tau) * Sample(x, lo + tau)
            + NsdfDivisor(x, tau, lo + 1, hi)

\* variant of computeNsdf: nsdf[tau] = acf / divisor
computeNsdf_unscaled(x, bufferSize) ==
    [k \in 1..bufferSize |->
        IF bufferSize > Length(x) THEN NaN
        ELSE Quot(NsdfAcf(x, k - 1, 0, bufferSize - k),
                  NsdfDivisor(x, k - 1, 0, bufferSize - k))]

\* McLeod.computeNsdf: nsdf[tau] = 2 * acf / divisor for tau = 0 .. bufferSize-1,
\* as a sequence indexed from 1 (nsdf[tau] of the code is computeNsdf(..)[tau + 1])
computeNsdf(x, bufferSize) ==
    [k \in 1..bufferSize |->
        IF bufferSize > Length(x) THEN NaN
        ELSE Quot(2 * NsdfAcf(x, k - 1, 0, bufferSize - k),
                  NsdfDivisor(x, k - 1, 0, bufferSize - k))]

\* variant of findPeaks: nsdf[i] >= nsdf[i + 1] instead of nsdf[i] > nsdf[i + 1]
RECURSIVE findPeaks_plateau(_, _, _, _)
findPeaks_plateau(nsdf, threshold, i, peaks) ==
    IF i < Len(nsdf) - 1
    THEN IF /\ Lt(threshold, nsdf[i + 1])
            /\ Lt(nsdf[i], nsdf[i + 1])
            /\ ~IsNaN(nsdf[i + 2]) /\ ~Lt(nsdf[i + 1], nsdf[i + 2])
         THEN findPeaks_plateau(nsdf, threshold, i + 1, Append(peaks, i))
         ELSE findPeaks_plateau(nsdf, threshold, i + 1, peaks)
    ELSE peaks

\* McLeod.findPeaks, entered with i = 1 and peaks = []
RECURSIVE findPeaks(_, _, _, _)
findPeaks(nsdf, threshold, i, peaks) ==
    IF i < Len(nsdf) - 1
    THEN IF /\ Lt(threshold, nsdf[i + 1])
            /\ Lt(nsdf[i], nsdf[i + 1])
            /\ Lt(nsdf[i + 2], nsdf[i + 1])
         THEN findPeaks(nsdf, threshold, i + 1, Append(peaks, i))
         ELSE findPeaks(nsdf, threshold, i + 1, peaks)
    ELSE peaks

\* variant of the selection loop: nsdf[peaks[i]] >= maxValue
RECURSIVE McLeod_maxIndex_last(_, _, _, _)
McLeod_maxIndex_last(nsdf, peaks, i, maxIndex) ==
    IF i < Len(peaks)
    THEN IF ~Lt(nsdf[peaks[i + 1] + 1], nsdf[maxIndex + 1])
         THEN McLeod_maxIndex_last(nsdf, peaks, i + 1, peaks[i + 1])
         ELSE McLeod_maxIndex_last(nsdf, peaks, i + 1, maxIndex)
    ELSE maxIndex

\* the selection loop of McLeod.detect, entered with i = 1 (the code's index
\* into peaks), maxIndex = peaks[0]
RECURSIVE McLeod_maxIndex(_, _, _, _)
McLeod_maxIndex(nsdf, peaks, i, maxIndex) ==
    IF i < Len(peaks)
    THEN IF Lt(nsdf[maxIndex + 1], nsdf[peaks[i + 1] + 1])
         THEN McLeod_maxIndex(nsdf, peaks, i + 1, peaks[i + 1])
         ELSE McLeod_maxIndex(nsdf, peaks, i + 1, maxIndex)
    ELSE maxIndex

\* PitchDetector.applyParabolicInterpolation, handed the nsdf array
McLeod_applyParabolicInterpolation(nsdf, tau) ==
    LET prevTau == tau - 1
        nextTau == tau + 1
    IN  IF 0 <= prevTau /\ nextTau < Len(nsdf)
        THEN LET prevSample == nsdf[prevTau + 1]
                 sample == nsdf[tau + 1]
                 nextSample == nsdf[nextTau + 1]
             IN  Add(Num(tau),
                     Div(Add(Sub(prevSample, Scale(2, sample)), nextSample),
                         Scale(2, Sub(Sub(Scale(2, sample), nextSample), prevSample))))
        ELSE Num(tau)

McLeodBufferSizes == 3..MaxNsdf
\* the buffers handed to McLeod.detect
McLeodBuffers ==
    {Buffer(1, s) : s \in UNION {[1..n -> (-MaxAmp)..MaxAmp] : n \in 0..MaxNsdf}}

InitMcLeod ==
    /\ kind = "McLeod"
    /\ options = << >>
    /\ samples = NoSamples
    /\ sampleRate = 0
    /\ pc = "new"
    /\ frame = NoCall
    /\ result = None
    /\ arg = << >>
    /\ prev = None

\* new McLeod(bufferSize, threshold = 0.5)
McLeodConstruct(bufferSize, threshold) ==
    /\ kind = "McLeod" /\ pc = "new"
    /\ options' = [bufferSize |-> bufferSize,
                   threshold |-> IF threshold = Absent THEN <<1, 2>> ELSE threshold[1]]
    /\ arg' = <<bufferSize, threshold>>
    /\ pc' = "configured"
    /\ UNCHANGED <<kind, samples, sampleRate, frame, result, prev>>

\* McLeod.detect: const nsdf = this.computeNsdf(samples). The fields of McLeod
\* are readonly, so every call starts from the constructed object.
McLeodDetect(x, r) ==
    /\ kind = "McLeod" /\ pc = "configured"
    /\ samples' = x
    /\ sampleRate' = r
    /\ frame' = [nsdf |-> computeNsdf(x, options.bufferSize),
                 peaks |-> << >>, maxIndex |-> 0, betterTau |-> NaN]
    /\ pc' = "peaks"
    /\ arg' = << >>
    /\ UNCHANGED <<kind, options, result, prev>>

\* McLeod.detect: const peaks = this.findPeaks(nsdf)
McLeodFindPeaks ==
    /\ kind = "McLeod" /\ pc = "peaks"
    /\ frame' = [frame EXCEPT !.peaks = findPeaks(frame.nsdf, options.threshold, 1, << >>)]
    /\ pc' = "select"
    /\ UNCHANGED <<kind, options, samples, sampleRate, result, arg, prev>>

\* McLeod.detect: if (peaks.length === 0) return -1
McLeodNoPeaks ==
    /\ kind = "McLeod" /\ pc = "select"
    /\ Len(frame.peaks) = 0
    /\ result' = <<Num(-1)>>
    /\ pc' = "done"
    /\ UNCHANGED <<kind, options, samples, sampleRate, frame, arg, prev>>

\* McLeod.detect: the selection of the highest peak and its interpolation
McLeodSelect ==
    /\ kind = "McLeod" /\ pc = "select"
    /\ Len(frame.peaks) # 0
    /\ LET maxIndex == McLeod_maxIndex(frame.nsdf, frame.peaks, 1, frame.peaks[1])
       IN  frame' = [frame EXCEPT !.maxIndex = maxIndex,
                                  !.betterTau = McLeod_applyParabolicInterpolation(frame.nsdf, maxIndex)]
    /\ pc' = "convert"
    /\ UNCHANGED <<kind, options, samples, sampleRate, result, arg, prev>>

\* McLeod.detect: return sampleRate / betterTau
McLeodReturn ==
    /\ kind = "McLeod" /\ pc = "convert"
    /\ result' = <<Div(Num(sampleRate), frame.betterTau)>>
    /\ pc' = "done"
    /\ UNCHANGED <<kind, options, samples, sampleRate, frame, arg, prev>>

NextMcLeod ==
    \/ \E b \in McLeodBufferSizes, t \in Option(OptThresholds) : McLeodConstruct(b, t)
    \/ pc = "configured" /\ \E x \in McLeodBuffers, r \in Rates : McLeodDetect(x, r)
    \/ McLeodFindPeaks
    \/ McLeodNoPeaks
    \/ McLeodSelect
    \/ McLeodReturn

SpecMcLeod == InitMcLeod /\ [][NextMcLeod]_vars

\* C12: McLeod.detect returns 0 when no valid pitch is detected, that is,
\* when no NSDF index is a strict local maximum above the threshold.
\* (Stated for buffers that fill the NSDF window; the claim asserts it for all.)
McLeodNoPitchIsZero ==
    (kind = "McLeod" /\ pc = "done" /\ options.bufferSize <= Length(samples)
        /\ Len(frame.peaks) = 0) => result = <<Zero>>

\* -------------------------------------------------------------- termination
\* the steps a running detect call takes
Step ==
    \/ AmdfFindBestTau \/ AmdfFindAbsoluteThreshold \/ AmdfRefine \/ AmdfReturn
    \/ AsdfFindBestTau \/ AsdfFindAbsoluteThreshold \/ AsdfReturn
    \/ YinFindBestTau \/ YinFindAbsoluteThreshold \/ YinRefine \/ YinReturn

\* a detector is constructed and detect is called on it once
NextCall ==
    \/ \E p \in AmdfPartials : AmdfConstruct(p)
    \/ \E p \in AsdfPartials : AsdfConstruct(p)
    \/ \E p \in YinPartials : YinConstruct(p)
    \/ pc = "configured" /\ \E x \in Buffers, r \in Rates : AmdfDetect(x, r)
    \/ pc = "configured" /\ \E x \in Buffers, r \in Rates : AsdfDetect(x, r)
    \/ pc = "configured" /\ \E x \in Buffers, r \in Rates : YinDetect(x, r)
    \/ Step

\* detect is synchronous code: once called it keeps running
SpecFair == Init /\ [][NextCall]_vars /\ WF_vars(Step)

\* C13: detect terminates and returns a number: the scan moves to the next
\* lag of the range at each iteration, the descent strictly increases the lag
\* and never passes the upper bound, and every call that was started returns.
DetectTerminates ==
    /\ [][/\ (pc = "scan" /\ pc' = "scan") =>
                (frame'.i = frame.i + 1 /\ frame'.i <= MaxLag)
          /\ (pc = "descend" /\ pc' = "descend") =>
                (frame'.absBestTau = frame.absBestTau + 1 /\ frame'.absBestTau <= MaxLag)
          /\ (pc = "descend" /\ pc' # "descend") => pc' \in {"refine", "convert"}
          /\ (InCall /\ pc' = "done") => result' # None]_vars
    /\ InCall ~> (pc = "done")

\* C13 witness: an Asdf call that scanned past its first lag and descended
\* past its first crossing has returned
DetectTerminatesWitness ==
    /\ pc = "done"
    /\ kind = "Asdf"
    /\ MinLag < frame.i
    /\ Found
    /\ frame.i < ChosenLag

\* C14: Amdf and Asdf search the integer lags of [minTau, maxTau), where
\* minTau = floor(sampleRate / maxFrequency) and maxTau = ceil(sampleRate /
\* minFrequency): the scan starts at minTau and has examined every lag before
\* the one it is at, no lag outside the range is examined, and the integer
\* lag chosen on success lies in the range.
LagRangeFromFrequencies ==
    (kind \in {"Amdf", "Asdf"} /\ (InCall \/ pc = "done")) =>
        /\ frame.minTau * options.maxFrequency <= sampleRate
        /\ sampleRate < (frame.minTau + 1) * options.maxFrequency
        /\ (frame.maxTau - 1) * options.minFrequency < sampleRate
        /\ sampleRate <= frame.maxTau * options.minFrequency
        /\ frame.minTau <= frame.i
        /\ frame.minTau < frame.i => frame.i <= frame.maxTau
        /\ \A k \in frame.minTau..(frame.i - 1) : k \notin Qualifying
        /\ pc = "descend" => (frame.i < frame.absBestTau /\ frame.absBestTau <= frame.maxTau)
        /\ (pc \in {"refine", "convert", "done"} /\ Found) =>
               (frame.minTau <= ChosenLag /\ ChosenLag < frame.maxTau)

\* C14 witness: at a sample rate that is a multiple of neither frequency, an
\* Asdf call has chosen the last lag of its range
LagRangeWitness ==
    /\ pc = "done"
    /\ kind = "Asdf"
    /\ sampleRate % options.minFrequency # 0
    /\ sampleRate % options.maxFrequency # 0
    /\ Found
    /\ frame.minTau < frame.i
    /\ ChosenLag = frame.maxTau - 1

\* C15: Yin searches the integer lags of [1, bufferSize), bufferSize being
\* the configured option and not the length of the sample buffer: the scan
\* starts at 1 and has examined every lag before the one it is at, no lag
\* outside the range is examined, and the integer lag chosen on success lies
\* in the range.
LagRangeFromBufferSize ==
    (kind = "Yin" /\ (InCall \/ pc = "done")) =>
        /\ frame.bufferSize = options.bufferSize
        /\ 1 <= frame.i
        /\ 1 < frame.i => frame.i <= options.bufferSize
        /\ \A k \in 1..(frame.i - 1) : k \notin Qualifying
        /\ pc = "descend" =>
               (frame.i < frame.absBestTau /\ frame.absBestTau <= options.bufferSize)
        /\ (pc \in {"refine", "convert", "done"} /\ Found) =>
               (1 <= ChosenLag /\ ChosenLag < options.bufferSize)

\* C15 witness: on a buffer longer than bufferSize, a Yin call has examined
\* the lags 1 .. bufferSize - 1 and found none, although a lag between
\* bufferSize and the length of the buffer is below the threshold
LagRangeFromBufferSizeWitness ==
    /\ pc = "done"
    /\ kind = "Yin"
    /\ 2 < options.bufferSize /\ options.bufferSize < Length(samples)
    /\ frame.i = options.bufferSize
    /\ result = <<Zero>>
    /\ Yin_firstCrossing(samples, 1, Length(samples), options.threshold, 0)
           \in options.bufferSize..(Length(samples) - 1)

\* ----------------------------------------------- the metrics, as documented
\* the sum of |x[i] - x[i+t]| (p = 1) or of (x[i] - x[i+t])^2 (p = 2) over
\* the whole comparison window i = 0 .. N - t - 1
RECURSIVE WindowSum(_, _, _, _)
WindowSum(x, t, p, i) ==
    IF i >= Length(x) - t THEN 0
    ELSE (IF p = 1 THEN Abs(Sample(x, i) - Sample(x, i + t))
          ELSE (Sample(x, i) - Sample(x, i + t)) * (Sample(x, i) - Sample(x, i + t)))
         + WindowSum(x, t, p, i + 1)

\* the mean of the window: AMDF for p = 1, ASDF for p = 2
WindowMean(x, t, p) ==
    Quot(WindowSum(x, t, p, 0),
         (IF p = 1 THEN x.unit ELSE x.unit * x.unit) * (Length(x) - t))

\* C16: the AMDF and ASDF values the search works with are the means over
\* the full comparison window: at lag t < N, the sum over i = 0 .. N-t-1 of
\* |x[i] - x[i+t]|, respectively (x[i] - x[i+t])^2, divided by N - t.
MetricIsWindowMean ==
    (kind \in {"Amdf", "Asdf"} /\ pc = "descend" /\ frame.absBestTau - 1 < Length(samples)) =>
        frame.value = WindowMean(samples, frame.absBestTau - 1,
                                 IF kind = "Amdf" THEN 1 ELSE 2)

\* diff(1) + ... + diff(t) with diff(k) the sum of (x[i] - x[i+k])^2 over
\* the whole window i = 0 .. N - k - 1
RECURSIVE WindowDiffSum(_, _)
WindowDiffSum(x, t) ==
    IF t < 1 THEN 0 ELSE WindowSum(x, t, 2, 0) + WindowDiffSum(x, t - 1)

\* the cumulative mean normalized difference as documented:
\* CMND(0) = 1, CMND(t) = diff(t) * t / (diff(1) + ... + diff(t))
WindowCmnd(x, t) ==
    IF t = 0 THEN Num(1) ELSE Quot(WindowSum(x, t, 2, 0) * t, WindowDiffSum(x, t))

\* C17: every CMND value Yin compares equals diff(t) * t / (diff(1) + ... +
\* diff(t)) with diff(t) the sum of (x[i] - x[i+t])^2 over all valid i: the
\* value of the lag the scan has just left, and the value of the lag the
\* descent stands on.
CmndAsDocumented ==
    (kind = "Yin" /\ InCall /\ frame.bufferSize <= Length(samples)) =>
        /\ (pc = "scan" /\ 1 < frame.i) =>
               frame.cmnd = WindowCmnd(samples, frame.i - 1)
        /\ pc = "descend" =>
               frame.cmnd = WindowCmnd(samples, frame.absBestTau - 1)

\* ---------------------------------------------------------------- refinement
\* the metric of the running call at lag t, as the detector computes it
Metric(t) == MetricTable(t + 1)[t + 1]

\* the curvature denominator 2 v[t] - v[t+1] - v[t-1] of the metric at lag t
Curvature(t) == Sub(Sub(Scale(2, Metric(t)), Metric(t + 1)), Metric(t - 1))

\* the code refines the lag t: both neighbours exist (for Yin inside
\* [0, bufferSize), for Amdf inside the array handed to the shared helper)
\* and, for Yin, the curvature denominator is not 0
Refines(t) ==
    /\ Found
    /\ 1 <= t
    /\ IF kind = "Yin" THEN t + 1 < frame.bufferSize /\ Curvature(t) # Zero
       ELSE kind = "Amdf" /\ t + 1 < Length(samples)

RefinesFromMetric ==
    (pc = "convert" /\ Refines(ChosenLag)) =>
        frame.bestTau =
            IF kind = "Amdf"
            THEN McLeod_applyParabolicInterpolation(MetricTable(ChosenLag + 2),
                                                    ChosenLag)
            ELSE Add(Num(ChosenLag),
                     Div(Sub(Metric(ChosenLag + 1), Metric(ChosenLag - 1)),
                         Scale(2, Curvature(ChosenLag))))

\* both neighbours of the lag t exist for the refinement of the detector
HasNeighbours(t) ==
    /\ 1 <= t
    /\ t + 1 < (IF kind = "Yin" THEN frame.bufferSize ELSE Length(samples))

\* the curvature denominator over the three values the refinement of the
\* detector reads at t-1, t, t+1
FedCurvature(t) ==
    IF kind = "Yin" THEN Curvature(t)
    ELSE Num(2 * Sample(samples, t) - Sample(samples, t + 1)
                 - Sample(samples, t - 1))

\* C20: whenever the curvature denominator 2 v[t] - v[t+1] - v[t-1] is
\* exactly zero, refinement is skipped and the integer lag t is returned
\* unchanged, and no refinement yields a non-numeric lag, for the refinement
\* of every detector.
FlatNeighbourhoodGuard ==
    (pc = "convert" /\ kind \in {"Amdf", "Yin"} /\ Found) =>
        /\ ~IsNaN(frame.bestTau)
        /\ (HasNeighbours(ChosenLag) /\ FedCurvature(ChosenLag) = Zero) =>
               frame.bestTau = Num(ChosenLag)

\* --------------------------------------------------------------------- NSDF
\* a McLeod call has computed its NSDF array
McLeodInCall == kind = "McLeod" /\ pc \in {"peaks", "select", "convert", "done"}

\* the sum of x[j] * x[j+t] over the pairs j = 0 .. n-t-1 of the window of
\* n samples, from the last pair down
RECURSIVE WindowAcf(_, _, _)
WindowAcf(x, t, j) ==
    IF j < 0 THEN 0
    ELSE WindowAcf(x, t, j - 1) + Sample(x, j) * Sample(x, j + t)

\* the sum of x[j]^2 + x[j+t]^2 over the same pairs
RECURSIVE WindowEnergy(_, _, _)
WindowEnergy(x, t, j) ==
    IF j < 0 THEN 0
    ELSE WindowEnergy(x, t, j - 1) + Sample(x, j) * Sample(x, j)
                                   + Sample(x, j + t) * Sample(x, j + t)

\* C21, as claimed: at every lag t of [0, bufferSize) with a non-zero divisor
\* the NSDF is 2 sum(x[j] x[j+t]) / sum(x[j]^2 + x[j+t]^2), j = 0 ..
\* bufferSize-t-1, it lies in [-1, 1], and NSDF(0) = 1 for any buffer that is
\* not all zero.
NsdfAsClaimed ==
    McLeodInCall =>
        /\ options.bufferSize <= Length(samples) =>
             \A t \in 0..(options.bufferSize - 1) :
                LET a == WindowAcf(samples, t, options.bufferSize - t - 1)
                    d == WindowEnergy(samples, t, options.bufferSize - t - 1)
                IN  d # 0 => /\ frame.nsdf[t + 1] = Quot(2 * a, d)
                             /\ -d <= 2 * a /\ 2 * a <= d
        /\ (\E i \in 0..(Length(samples) - 1) : Sample(samples, i) # 0) =>
             frame.nsdf[1] = Num(1)

\* C21, amended: the same, on a buffer of at least bufferSize samples, and
\* NSDF(0) = 1 when the first bufferSize samples are not all zero.
NsdfIsNormalizedAutocorrelation ==
    (McLeodInCall /\ options.bufferSize <= Length(samples)) =>
        /\ \A t \in 0..(options.bufferSize - 1) :
              LET a == WindowAcf(samples, t, options.bufferSize - t - 1)
                  d == WindowEnergy(samples, t, options.bufferSize - t - 1)
              IN  d # 0 => /\ frame.nsdf[t + 1] = Quot(2 * a, d)
                           /\ -d <= 2 * a /\ 2 * a <= d
        /\ (\E i \in 0..(options.bufferSize - 1) : Sample(samples, i) # 0) =>
             frame.nsdf[1] = Num(1)

\* C21 witness: an NSDF with a negative value, a value strictly between 0
\* and 1, and NSDF(0) = 1
NsdfWitness ==
    /\ McLeodInCall
    /\ options.bufferSize <= Length(samples)
    /\ frame.nsdf[1] = Num(1)
    /\ \E t \in 1..(options.bufferSize - 1) : Lt(frame.nsdf[t + 1], Zero)
    /\ \E t \in 1..(options.bufferSize - 1) :
          Lt(Zero, frame.nsdf[t + 1]) /\ Lt(frame.nsdf[t + 1], Num(1))

\* ----------------------------------------------------------- McLeod peaks
\* a McLeod call has collected its peaks
McLeodPeaksKnown == kind = "McLeod" /\ pc \in {"select", "convert", "done"}

\* nsdf[i] of the running call
Nsdf(i) == frame.nsdf[i + 1]

\* i is a strict local maximum of the NSDF above the threshold
IsPeak(i) ==
    /\ Lt(options.threshold, Nsdf(i))
    /\ Lt(Nsdf(i - 1), Nsdf(i))
    /\ Lt(Nsdf(i + 1), Nsdf(i))

\* C22: findPeaks returns, in increasing order, exactly the indices i with
\* 1 <= i < length-1 such that nsdf[i] > threshold, nsdf[i] > nsdf[i-1] and
\* nsdf[i] > nsdf[i+1]; indices 0 and length-1 and plateau points are never
\* peaks.
PeaksAreStrictMaxima ==
    McLeodPeaksKnown =>
        /\ \A k \in 1..(Len(frame.peaks) - 1) : frame.peaks[k] < frame.peaks[k + 1]
        /\ {frame.peaks[k] : k \in 1..Len(frame.peaks)}
              = {i \in 1..(Len(frame.nsdf) - 2) : IsPeak(i)}
        /\ \A k \in 1..Len(frame.peaks) :
              /\ frame.peaks[k] # 0
              /\ frame.peaks[k] # Len(frame.nsdf) - 1
              /\ Nsdf(frame.peaks[k]) # Nsdf(frame.peaks[k] - 1)
              /\ Nsdf(frame.peaks[k]) # Nsdf(frame.peaks[k] + 1)

\* C22 witness: two peaks were collected, and an index above the threshold
\* that is not a strict local maximum was not
PeaksWitness ==
    /\ McLeodPeaksKnown
    /\ Len(frame.peaks) >= 2
    /\ \E i \in 1..(Len(frame.nsdf) - 2) :
          /\ Lt(options.threshold, Nsdf(i))
          /\ ~IsPeak(i)
          /\ \A k \in 1..Len(frame.peaks) : frame.peaks[k] # i

\* a McLeod call has selected its peak
McLeodSelected ==
    kind = "McLeod" /\ pc \in {"convert", "done"} /\ Len(frame.peaks) # 0

\* the collected peaks, as a set
Peaks == {frame.peaks[k] : k \in 1..Len(frame.peaks)}

\* C23: among the collected peaks, detect selects a peak whose NSDF value is
\* the maximum over all collected peaks, and when several peaks share that
\* maximum it selects the one with the smallest lag.
SelectsHighestPeak ==
    McLeodSelected =>
        /\ frame.maxIndex \in Peaks
        /\ \A p \in Peaks : ~Lt(Nsdf(frame.maxIndex), Nsdf(p))
        /\ \A p \in Peaks : Nsdf(p) = Nsdf(frame.maxIndex) => frame.maxIndex <= p

\* C23 witness: two peaks share the maximum
SelectsHighestPeakWitness ==
    /\ McLeodSelected
    /\ \E p \in Peaks : p # frame.maxIndex /\ Nsdf(p) = Nsdf(frame.maxIndex)

\* Yin has refined the lag t and the CMND values next to it are numbers
YinRefinesWellDefined(t) ==
    /\ kind = "Yin"
    /\ pc = "convert"
    /\ Refines(t)
    /\ 2 <= t
    /\ ~IsNaN(Metric(t - 1))
    /\ ~IsNaN(Metric(t + 1))

\* C24: whenever Yin's refinement is applied at the integer lag t chosen by
\* threshold-and-descend, with well-defined neighbouring CMND values, the
\* refined lag t' satisfies t - 1/2 <= t' <= t + 1/2, so it is positive and
\* within the searched range [1, bufferSize).
YinRefinedLagStaysNear ==
    YinRefinesWellDefined(ChosenLag) =>
        /\ ~IsNaN(frame.bestTau)
        /\ ~Lt(frame.bestTau, Quot(2 * ChosenLag - 1, 2))
        /\ ~Lt(Quot(2 * ChosenLag + 1, 2), frame.bestTau)
        /\ Lt(Zero, frame.bestTau)
        /\ ~Lt(frame.bestTau, Num(1))
        /\ Lt(frame.bestTau, Num(frame.bufferSize))

\* C24 witness: a refined lag strictly between t and t + 1/2
YinRefinedLagWitness ==
    /\ YinRefinesWellDefined(ChosenLag)
    /\ Lt(Num(ChosenLag), frame.bestTau)
    /\ Lt(frame.bestTau, Quot(2 * ChosenLag + 1, 2))

\* ------------------------------------------------------- the shared helper
\* JavaScript evaluates the helper's expression in binary floating point:
\* every operation returns the exact result rounded to the nearest number
\* with a significand of MantissaBits bits, ties to even (53 bits for a
\* JavaScript number, scaled down here).
RECURSIVE Pow2(_)
Pow2(k) == IF k = 0 THEN 1 ELSE 2 * Pow2(k - 1)

\* the integer nearest to n / d for n >= 0, d > 0, ties to even
NearestEven(n, d) ==
    LET f == n \div d
        r == n % d
    IN  IF 2 * r < d THEN f
        ELSE IF 2 * r > d THEN f + 1
        ELSE IF f % 2 = 0 THEN f ELSE f + 1

\* the number n / d (n >= 0, d > 0) rounded to MantissaBits significant bits
RECURSIVE RoundPositive(_, _)
RoundPositive(n, d) ==
    IF n = 0 THEN Zero
    ELSE IF n >= d * Pow2(MantissaBits)
         THEN Scale(2, RoundPositive(n, 2 * d))
    ELSE IF n < d * Pow2(MantissaBits - 1)
         THEN LET h == RoundPositive(2 * n, d) IN Quot(h[1], 2 * h[2])
    ELSE Num(NearestEven(n, d))

\* the result of a floating-point operation whose exact result is q
Round(q) ==
    IF IsNaN(q) THEN NaN
    ELSE IF q[1] < 0 THEN Neg(RoundPositive(-q[1], q[2]))
    ELSE RoundPositive(q[1], q[2])

\* prevSample - 2 * sample + nextSample, as JavaScript computes it
FloatNumerator(prevSample, sample, nextSample) ==
    Round(Add(Round(Sub(prevSample, Round(Scale(2, sample)))), nextSample))

\* 2 * (2 * sample - nextSample - prevSample), as JavaScript computes it
FloatDenominator(prevSample, sample, nextSample) ==
    Round(Scale(2, Round(Sub(Round(Sub(Round(Scale(2, sample)), nextSample)),
                             prevSample))))

\* variant of the helper: the numerator is prevSample - nextSample
Float_applyParabolicInterpolation_vertex(x, tau) ==
    LET prevTau == tau - 1
        nextTau == tau + 1
    IN  IF 0 <= prevTau /\ nextTau < Length(x)
        THEN LET prevSample == Quot(Sample(x, prevTau), x.unit)
                 sample == Quot(Sample(x, tau), x.unit)
                 nextSample == Quot(Sample(x, nextTau), x.unit)
             IN  Round(Add(Num(tau),
                     Round(Div(Round(Sub(prevSample, nextSample)),
                               FloatDenominator(prevSample, sample, nextSample)))))
        ELSE Num(tau)

\* PitchDetector.applyParabolicInterpolation(samples, tau) in floating point.
\* A quotient by 0 (NaN or an infinity in JavaScript) is NaN here.
Float_applyParabolicInterpolation(x, tau) ==
    LET prevTau == tau - 1
        nextTau == tau + 1
    IN  IF 0 <= prevTau /\ nextTau < Length(x)
        THEN LET prevSample == Quot(Sample(x, prevTau), x.unit)
                 sample == Quot(Sample(x, tau), x.unit)
                 nextSample == Quot(Sample(x, nextTau), x.unit)
             IN  Round(Add(Num(tau),
                     Round(Div(FloatNumerator(prevSample, sample, nextSample),
                               FloatDenominator(prevSample, sample, nextSample)))))
        ELSE Num(tau)

\* the arrays handed to the helper: three elements of 0, 1/64, 1/32, 1/16, 1,
\* 2, 5/2, each a number of at most three significant bits
HelperBuffers == {Buffer(64, s) : s \in [1..3 -> {0, 1, 2, 4, 64, 128, 160}]}

InitHelper ==
    /\ kind = "Helper"
    /\ options = << >>
    /\ samples \in HelperBuffers
    /\ sampleRate = 0
    /\ pc = "configured"
    /\ frame = NoCall
    /\ result = None
    /\ arg = << >>
    /\ prev = None

\* a call applyParabolicInterpolation(samples, tau)
HelperApply(tau) ==
    /\ kind = "Helper" /\ pc = "configured"
    /\ frame' = [tau |-> tau, bestTau |-> Float_applyParabolicInterpolation(samples, tau)]
    /\ pc' = "done"
    /\ UNCHANGED <<kind, options, samples, sampleRate, result, arg, prev>>

NextHelper == \E tau \in 0..2 : HelperApply(tau)

SpecHelper == InitHelper /\ [][NextHelper]_vars

\* the helper has been applied
HelperApplied == kind = "Helper" /\ pc = "done"

\* the samples of the running call as an array of numbers
SampleNumbers == [k \in 1..Length(samples) |-> Quot(samples.data[k], samples.unit)]

\* prev - 2 * sample + next over the three entries around tau of an array of
\* numbers (indexed from 1), in exact arithmetic
SecondDifference(v, tau) ==
    Add(Sub(v[tau], Scale(2, v[tau + 1])), v[tau + 2])

\* the helper was handed the array v and the lag tau, with 1 <= tau <=
\* length-2 and three values that are not collinear
NotCollinear(v, tau) ==
    /\ 1 <= tau
    /\ tau <= Len(v) - 2
    /\ SecondDifference(v, tau) # Zero

\* the two sums of the helper's expression are computed without rounding error
SumsAreExact(v, tau) ==
    /\ FloatNumerator(v[tau], v[tau + 1], v[tau + 2]) = SecondDifference(v, tau)
    /\ FloatDenominator(v[tau], v[tau + 1], v[tau + 2])
          = Scale(-2, SecondDifference(v, tau))

\* C25, as claimed: the shared parabolic interpolation helper returns exactly
\* tau - 1/2 for every input where 1 <= tau <= length-2 and the three values
\* are not collinear (prev - 2*sample + next != 0, here both as a real
\* number and as JavaScript computes it), independent of the values.
SharedHelperAsClaimed ==
    (/\ HelperApplied
     /\ NotCollinear(SampleNumbers, frame.tau)
     /\ FloatNumerator(SampleNumbers[frame.tau], SampleNumbers[frame.tau + 1],
                       SampleNumbers[frame.tau + 2]) # Zero) =>
        frame.bestTau = Quot(2 * frame.tau - 1, 2)

\* C25, amended: the helper returns exactly tau - 1/2 for every input where
\* 1 <= tau <= length-2, the three values are not collinear, and the two
\* sums prev - 2*sample + next and 2*sample - next - prev are computed
\* without rounding error.
SharedHelperReturnsHalfBelow ==
    (/\ HelperApplied
     /\ NotCollinear(SampleNumbers, frame.tau)
     /\ SumsAreExact(SampleNumbers, frame.tau)) =>
        frame.bestTau = Quot(2 * frame.tau - 1, 2)

\* C25 witness: the helper was handed three different values, the sums were
\* exact, and it returned tau - 1/2
SharedHelperWitness ==
    /\ HelperApplied
    /\ NotCollinear(SampleNumbers, frame.tau)
    /\ SumsAreExact(SampleNumbers, frame.tau)
    /\ Cardinality({SampleNumbers[k] : k \in 1..3}) = 3
    /\ frame.bestTau = Quot(2 * frame.tau - 1, 2)

\* ------------------------------------------------ degenerate frequency bounds
\* a call of Amdf or Asdf is running or has returned, and the frequency
\* options of the detector give an empty lag range at the sample rate
DegenerateCall ==
    /\ kind \in {"Amdf", "Asdf"}
    /\ pc \in {"scan", "descend", "refine", "convert", "done"}
    /\ Floor(sampleRate, options.maxFrequency)
          >= Ceil(sampleRate, options.minFrequency)

\* C26: if floor(sampleRate / maxFrequency) >= ceil(sampleRate / minFrequency)
\* (for example after configure stored minFrequency > maxFrequency), detect
\* of Amdf and Asdf evaluates no metric and returns 0.
DegenerateBoundsYieldZero ==
    DegenerateCall =>
        /\ pc \in {"scan", "convert", "done"}
        /\ frame.i = Floor(sampleRate, options.maxFrequency)
        /\ IsNaN(frame.value)
        /\ frame.bestTau = Zero
        /\ pc = "done" => result = <<Zero>>

\* C26 witness: configure stored minFrequency > maxFrequency on an Asdf
\* detector, and a call on a buffer with a lag below the threshold returned 0
DegenerateBoundsWitness ==
    /\ DegenerateCall
    /\ kind = "Asdf"
    /\ pc = "done"
    /\ options.minFrequency > options.maxFrequency
    /\ Length(samples) >= 3
    /\ \E t \in 1..(Length(samples) - 1) :
          Lt(computeAsdf(samples, t), options.threshold)
    /\ result = <<Zero>>

\* -------------------------------------------------------------------- silence
\* Asdf.detect has returned from a call on a buffer whose samples are all
\* equal, with threshold > 0, 1 <= minTau < maxTau and minTau < N
SilentCall ==
    /\ kind = "Asdf"
    /\ pc = "done"
    /\ \A i \in 0..(Length(samples) - 1) : Sample(samples, i) = Sample(samples, 0)
    /\ Lt(Zero, options.threshold)
    /\ 1 <= Floor(sampleRate, options.maxFrequency)
    /\ Floor(sampleRate, options.maxFrequency) < Ceil(sampleRate, options.minFrequency)
    /\ Floor(sampleRate, options.maxFrequency) < Length(samples)

\* C27: for a buffer of length N whose samples are all equal, threshold > 0
\* and 1 <= minTau < maxTau with minTau < N, Asdf.detect returns
\* sampleRate / minTau, the highest frequency of the search range, not the
\* no-pitch value 0.
SilenceIsAPitch ==
    SilentCall =>
        /\ result = <<Quot(sampleRate, Floor(sampleRate, options.maxFrequency))>>
        /\ result # <<Zero>>

\* C27 witness: a buffer of four zeros is reported as sampleRate / minTau
SilenceWitness ==
    /\ SilentCall
    /\ Length(samples) = 4
    /\ Sample(samples, 0) = 0
    /\ 2 <= Floor(sampleRate, options.maxFrequency)
    /\ result = <<Quot(sampleRate, Floor(sampleRate, options.maxFrequency))>>

\* -------------------------------------------------------------- result bounds
\* Asdf.detect has returned a non-zero value
AsdfReturnedPitch == kind = "Asdf" /\ pc = "done" /\ result # <<Zero>>

\* C28: with sampleRate > 0 and 0 < minFrequency, every non-zero value
\* returned by Asdf.detect equals sampleRate / t for an integer lag t with
\* floor(sampleRate/maxFrequency) <= t < ceil(sampleRate/minFrequency), hence
\* it is strictly greater than minFrequency and at most
\* sampleRate / floor(sampleRate/maxFrequency).
AsdfResultBounds ==
    (AsdfReturnedPitch /\ sampleRate > 0 /\ 0 < options.minFrequency) =>
        LET minTau == Floor(sampleRate, options.maxFrequency)
            maxTau == Ceil(sampleRate, options.minFrequency)
        IN  /\ \E t \in minTau..(maxTau - 1) : result = <<Quot(sampleRate, t)>>
            /\ Lt(Num(options.minFrequency), result[1])
            /\ minTau > 0 => ~Lt(Quot(sampleRate, minTau), result[1])

\* C28 witness: Asdf.detect returned sampleRate / t for a lag t above the
\* first lag of the range
AsdfResultWitness ==
    /\ AsdfReturnedPitch
    /\ \E t \in (Floor(sampleRate, options.maxFrequency) + 1)
                  ..(Ceil(sampleRate, options.minFrequency) - 1) :
          result = <<Quot(sampleRate, t)>>
    /\ Lt(result[1], Quot(sampleRate, Floor(sampleRate, options.maxFrequency)))

=============================================================================
